---- MODULE Spec2Model ----
(***************************************************************************)
(* A model of bounded-any (src/src/lib.rs): the AsStatic type mapping, the *)
(* BoundedTypeId identifier, and the BoundedAnyRef / BoundedAnyMut views,  *)
(* exercised by a client program with nested scopes.                       *)
(*                                                                         *)
(* Lifetimes are scope numbers: 0 is 'static, a larger number is a scope   *)
(* opened later, hence a shorter lifetime.  'x outlives 'y iff x <= y.     *)
(***************************************************************************)
EXTENDS Integers, Sequences, FiniteSets, TLC

VARIABLES tyT, tyU, idT, idU,
          depth, mem, borrow, view, results, held, written, last

typeVars == <<tyT, tyU, idT, idU>>
progVars == <<depth, mem, borrow, view, results, held, written, last>>
vars == <<tyT, tyU, idT, idU, depth, mem, borrow, view, results, held, written, last>>

(***************************************************************************)
(* Bounds of the model.                                                    *)
(***************************************************************************)
MaxScope == 1
MaxAddr == 2
MaxVal == 1
MaxResults == 2

(***************************************************************************)
(* Program constants: the largest tuple arity and array length for which   *)
(* an AsStatic impl is written.                                            *)
(***************************************************************************)
MaxTupleArity == 5
MaxArrayLen == 32

Lifetimes == 0..MaxScope

(***************************************************************************)
(* Type terms.  Every term has the same record shape: k is the type        *)
(* constructor, lt the lifetime of a reference, n the length of an array,  *)
(* args the type arguments.                                                *)
(***************************************************************************)
Mk(k, lt, n, args) == [k |-> k, lt |-> lt, n |-> n, args |-> args]
Leaf(k) == Mk(k, 0, 0, <<>>)
Ref(lt, T) == Mk("ref", lt, 0, <<T>>)
RefMut(lt, T) == Mk("refmut", lt, 0, <<T>>)
Slice(T) == Mk("slice", 0, 0, <<T>>)
BoxOf(T) == Mk("box", 0, 0, <<T>>)
VecOf(T) == Mk("vec", 0, 0, <<T>>)
RcOf(T) == Mk("rc", 0, 0, <<T>>)
WeakOf(T) == Mk("weak", 0, 0, <<T>>)
Tuple(ts) == Mk("tuple", 0, 0, ts)
Array(n, T) == Mk("array", 0, n, <<T>>)

i32 == Leaf("i32")
u32 == Leaf("u32")
str == Leaf("str")
String == Leaf("String")

\* trivial!(i8, ..., usize); trivial!(str, String); trivial!(bool, ())
Trivial == {"i8", "i16", "i32", "i64", "isize", "u8", "u16", "u32", "u64", "usize",
            "str", "String", "bool", "unit"}

\* The types the language itself treats as unsized.
Sized(T) == T.k \notin {"str", "slice"}

(***************************************************************************)
(* <T as AsStatic>::Static, as each impl writes it.  The impl for (A,)     *)
(* writes `(A::Static)`, a parenthesised type, which is A::Static itself.  *)
(***************************************************************************)
RECURSIVE Static(_)
Static(T) ==
    CASE T.k \in Trivial -> T
      [] T.k = "ref" -> Ref(0, Static(T.args[1]))
      [] T.k = "refmut" -> RefMut(0, Static(T.args[1]))
      [] T.k = "tuple" /\ Len(T.args) = 1 -> Static(T.args[1])
      [] T.k = "tuple" /\ Len(T.args) # 1 ->
            Tuple([i \in 1..Len(T.args) |-> Static(T.args[i])])
      [] OTHER -> Mk(T.k, 0, T.n, <<Static(T.args[1])>>)

(***************************************************************************)
(* T: AsStatic, i.e. some impl applies.  A type parameter of an impl is    *)
(* Sized unless the impl says ?Sized, and no impl does; the where clauses  *)
(* add `T::Static: Sized` where written.                                   *)
(***************************************************************************)
RECURSIVE AsStatic(_)
AsStatic(T) ==
    CASE T.k \in Trivial -> TRUE
      [] T.k \in {"ref", "refmut", "box", "rc", "weak"} ->
            AsStatic(T.args[1]) /\ Sized(T.args[1])
      [] T.k \in {"slice", "vec"} ->
            AsStatic(T.args[1]) /\ Sized(T.args[1]) /\ Sized(Static(T.args[1]))
      [] T.k = "array" ->
            /\ T.n \in 0..MaxArrayLen
            /\ AsStatic(T.args[1]) /\ Sized(T.args[1]) /\ Sized(Static(T.args[1]))
      [] T.k = "tuple" ->
            /\ Len(T.args) \in 1..MaxTupleArity
            /\ \A i \in 1..Len(T.args) :
                  AsStatic(T.args[i]) /\ Sized(T.args[i]) /\ Sized(Static(T.args[i]))
      [] OTHER -> FALSE

\* std::any::TypeId::of::<R>() for a 'static type R: one identity per type.
TypeId_of(R) == [type |-> R]

\* The lifetimes written in a type.
RECURSIVE LifetimesOf(_)
LifetimesOf(T) ==
    (IF T.k \in {"ref", "refmut"} THEN {T.lt} ELSE {})
        \cup UNION {LifetimesOf(T.args[i]) : i \in 1..Len(T.args)}

\* T: 'a, every lifetime written in T outlives 'a.
OutlivesBound(T, a) == \A l \in LifetimesOf(T) : l <= a

(***************************************************************************)
(* BoundedTypeId::of::<T>().  The call compiles when T: AsStatic and T is  *)
(* Sized (the type parameter of `of` has no ?Sized); otherwise the         *)
(* program is rejected.                                                    *)
(***************************************************************************)
Pending == [tag |-> "pending", tid |-> TypeId_of(Leaf("unit"))]
Rejected == [tag |-> "rejected", tid |-> TypeId_of(Leaf("unit"))]
BoundedTypeId_of(T) ==
    IF AsStatic(T) /\ Sized(T)
    THEN [tag |-> "id", tid |-> TypeId_of(Static(T))]
    ELSE Rejected

\* #[derive(Hash)]: the hash of the TypeId field; PhantomData adds nothing.
BoundedTypeId_hash(id) == id.tid

(***************************************************************************)
(* The types the identifier is asked for.                                  *)
(***************************************************************************)
Leaves == {i32, u32, str, String}
Elems == Leaves \cup {Ref(l, L) : l \in Lifetimes, L \in {i32, str, String}}
              \cup {RefMut(l, i32) : l \in Lifetimes}
\* Tuples of arity n: all components i32, but for at most one borrowed one.
TuplesOf(n) ==
    {Tuple([i \in 1..n |-> IF i = j THEN Ref(MaxScope, i32) ELSE i32]) : j \in 0..n}
Composites ==
    {Slice(E) : E \in Elems} \cup {VecOf(E) : E \in {String, Ref(1, str)}}
        \cup {BoxOf(i32), RcOf(i32), WeakOf(i32)}
        \cup {Array(n, i32) : n \in {0, 5, MaxArrayLen, MaxArrayLen + 1}}
        \cup UNION {TuplesOf(n) : n \in 1..(MaxTupleArity + 1)}
        \cup {Tuple(<<u32>>), Tuple(<<Tuple(<<i32>>)>>)}
TypeUniverse ==
    Elems \cup Composites
        \cup {Ref(1, Slice(E)) : E \in Elems}
        \cup {Ref(1, Tuple(<<i32>>)), Ref(1, Tuple(<<i32, i32>>)), Ref(1, Ref(MaxScope, i32))}

TypeInit ==
    /\ tyT \in TypeUniverse
    /\ tyU \in TypeUniverse
    /\ idT = Pending
    /\ idU = Pending
    /\ depth = 0
    /\ mem = [a \in 1..MaxAddr |-> [ty |-> Leaf("unit"), val |-> 0, scope |-> 0, st |-> "free"]]
    /\ borrow = [kind |-> "none", addr |-> 0, lt |-> 0]
    /\ view = [kind |-> "none", ptr |-> 0, vt |-> TypeId_of(Leaf("unit")),
               tid |-> TypeId_of(Leaf("unit")), lt |-> 0]
    /\ results = <<>>
    /\ held = [ptr |-> 0, ty |-> Leaf("unit"), lt |-> 0]
    /\ written = 0
    /\ last = [op |-> "none", ty |-> Leaf("unit"), ok |-> FALSE,
               res |-> [some |-> FALSE, ptr |-> 0, ty |-> Leaf("unit"), lt |-> 0, mut |-> FALSE]]

OfT ==
    /\ idT = Pending
    /\ idT' = BoundedTypeId_of(tyT)
    /\ UNCHANGED <<tyT, tyU, idU>>
    /\ UNCHANGED progVars

OfU ==
    /\ idU = Pending
    /\ idU' = BoundedTypeId_of(tyU)
    /\ UNCHANGED <<tyT, tyU, idT>>
    /\ UNCHANGED progVars

(***************************************************************************)
(* The views.  A view holds the fat reference `&'a Any` (the address and   *)
(* the vtable, whose type_id() is that of the type the reference was       *)
(* coerced from) and a TypeId field.                                       *)
(***************************************************************************)
Unit == Leaf("unit")
NoView == [kind |-> "none", ptr |-> 0, vt |-> TypeId_of(Unit), tid |-> TypeId_of(Unit), lt |-> 0]
NoBorrow == [kind |-> "none", addr |-> 0, lt |-> 0]
None == [some |-> FALSE, ptr |-> 0, ty |-> Unit, lt |-> 0, mut |-> FALSE]
Some(ptr, U, lt, mut) == [some |-> TRUE, ptr |-> ptr, ty |-> U, lt |-> lt, mut |-> mut]

\* A from that views a copy of the value, at another address.
BoundedAnyRef_from_copy(t_ref, T) ==
    [kind |-> "ref", ptr |-> (t_ref.addr % MaxAddr) + 1, vt |-> TypeId_of(Static(T)),
     tid |-> TypeId_of(Static(T)), lt |-> t_ref.lt]

\* impl From<&'a T> for BoundedAnyRef<'a>
BoundedAnyRef_from(t_ref, T) ==
    [kind |-> "ref", ptr |-> t_ref.addr, vt |-> TypeId_of(Static(T)),
     tid |-> TypeId_of(Static(T)), lt |-> t_ref.lt]

BoundedAnyMut_from_copy(t_ref, T) ==
    [kind |-> "mut", ptr |-> (t_ref.addr % MaxAddr) + 1, vt |-> TypeId_of(Static(T)),
     tid |-> TypeId_of(Static(T)), lt |-> t_ref.lt]

\* impl From<&'a mut T> for BoundedAnyMut<'a>
BoundedAnyMut_from(t_ref, T) ==
    [kind |-> "mut", ptr |-> t_ref.addr, vt |-> TypeId_of(Static(T)),
     tid |-> TypeId_of(Static(T)), lt |-> t_ref.lt]

\* std::any::Any::is::<R>(): TypeId::of::<R>() == self.type_id()
Any_is(v, R) == TypeId_of(R) = v.vt

\* An is that compares the type as written, lifetimes and all.
BoundedAnyRef_is_unerased(v, U) == Any_is(v, U)

BoundedAnyRef_is(v, U) == Any_is(v, Static(U))

BoundedAnyMut_is(v, U) == Any_is(v, Static(U))

\* A downcast_ref whose result has an unbounded lifetime.
BoundedAnyRef_downcast_ref_unbounded(v, U) ==
    IF Any_is(v, Static(U)) THEN Some(v.ptr, U, 0, FALSE) ELSE None

\* Any::downcast_ref::<U::Static>() mapped through the pointer cast to &'a U.
BoundedAnyRef_downcast_ref(v, U) ==
    IF Any_is(v, Static(U)) THEN Some(v.ptr, U, v.lt, FALSE) ELSE None

BoundedAnyMut_downcast_ref(v, U) ==
    IF Any_is(v, Static(U)) THEN Some(v.ptr, U, v.lt, FALSE) ELSE None

\* A downcast_mut that does not look at the type.
BoundedAnyMut_downcast_mut_unchecked(v, U) == Some(v.ptr, U, v.lt, TRUE)

\* Any::downcast_mut::<U::Static>() mapped through the pointer cast to &'a mut U.
BoundedAnyMut_downcast_mut(v, U) ==
    IF Any_is(v, Static(U)) THEN Some(v.ptr, U, v.lt, TRUE) ELSE None

(***************************************************************************)
(* The client program: locals in nested scopes, one borrow handed to a     *)
(* view, the results of its downcasts, and references copied out of them.  *)
(***************************************************************************)
Addrs == 1..MaxAddr
Vals == 0..MaxVal
NoCell == [ty |-> Unit, val |-> 0, scope |-> 0, st |-> "free"]
Dead == [ty |-> Unit, val |-> 0, scope |-> 0, st |-> "dead"]
NoHeld == [ptr |-> 0, ty |-> Unit, lt |-> 0]
NoCall == [op |-> "none", ty |-> Unit, ok |-> FALSE, res |-> None]
Call(op, U, ok, res) == [op |-> op, ty |-> U, ok |-> ok, res |-> res]

ValueTypes == {i32} \cup {Ref(l, i32) : l \in Lifetimes}
QueryTypes == ValueTypes \cup {u32, Tuple(<<i32>>)}

\* The innermost open scope, and the lifetimes that can be named in it.
CurScope == depth
OpenLts == 0..depth
Live(a) == mem[a].st = "live"
TypeOf(a) == mem[a].ty

\* What the borrow checker knows: the borrow handed to From lasts while the
\* view or anything of its lifetime is in use.
BorrowInUse == view # NoView \/ results # <<>>
SharedBorrowed(a) ==
    \/ \E b \in Addrs : Live(b) /\ TypeOf(b).k = "ref" /\ mem[b].val = a
    \/ held.ptr = a /\ held.lt \in OpenLts

\* The bounds of the generic parameter of from, is and the downcasts.
Bounds(U, a) ==
    /\ AsStatic(U) /\ Sized(U) /\ Sized(Static(U))
    /\ LifetimesOf(U) \subseteq OpenLts
    /\ OutlivesBound(U, a)

ProgInit ==
    /\ depth = 0
    /\ mem = [a \in Addrs |-> NoCell]
    /\ borrow = NoBorrow
    /\ view = NoView
    /\ results = <<>>
    /\ held = NoHeld
    /\ written = 0
    /\ last = NoCall

OpenScope ==
    /\ depth < MaxScope
    /\ depth' = depth + 1
    /\ UNCHANGED <<mem, borrow, view, results, held, written, last>>
    /\ UNCHANGED typeVars

\* The borrow handed to From is over once nothing made from it is in use.
BorrowAfter(v, rs) == IF v = NoView /\ rs = <<>> THEN NoBorrow ELSE borrow
LastAfter(v) == IF v = NoView THEN NoCall ELSE last

\* Leaving a scope drops its locals and everything whose lifetime it is; an
\* address is not used again.
CloseScope ==
    /\ depth > 0
    /\ LET s == CurScope IN
        /\ depth' = depth - 1
        /\ mem' = [a \in Addrs |->
                     IF Live(a) /\ mem[a].scope = s THEN Dead ELSE mem[a]]
        /\ view' = IF view.lt = s THEN NoView ELSE view
        /\ results' = SelectSeq(results, LAMBDA r : r.lt # s)
        /\ held' = IF held.lt = s THEN NoHeld ELSE held
    /\ borrow' = BorrowAfter(view', results')
    /\ last' = LastAfter(view')
    /\ UNCHANGED <<written>>
    /\ UNCHANGED typeVars

\* let x: T = v, in the innermost scope, between two borrows; a reference
\* local borrows a live i32 for a lifetime the i32 outlives.
Let(T, v) ==
    /\ ~BorrowInUse
    /\ \E a \in Addrs :
        /\ mem[a].st = "free"
        /\ \A b \in Addrs : b < a => mem[b].st # "free"
        /\ mem' = [mem EXCEPT ![a] = [ty |-> T, val |-> v, scope |-> CurScope, st |-> "live"]]
    /\ IF T.k = "ref"
       THEN /\ v \in Addrs
            /\ Live(v) /\ TypeOf(v) = T.args[1]
            /\ T.lt \in OpenLts
            /\ mem[v].scope <= T.lt
       ELSE v \in Vals
    /\ UNCHANGED <<depth, borrow, view, results, held, written, last>>
    /\ UNCHANGED typeVars

\* BoundedAnyRef::from(&v), the borrow having lifetime a.
FromRef(v, a) ==
    /\ ~BorrowInUse
    /\ Live(v) /\ a \in OpenLts /\ mem[v].scope <= a
    /\ Bounds(TypeOf(v), a)
    /\ borrow' = [kind |-> "ref", addr |-> v, lt |-> a]
    /\ view' = BoundedAnyRef_from(borrow', TypeOf(v))
    /\ last' = NoCall
    /\ UNCHANGED <<depth, mem, results, held, written>>
    /\ UNCHANGED typeVars

\* BoundedAnyMut::from(&mut v): nothing else may borrow v.
FromMut(v, a) ==
    /\ ~BorrowInUse
    /\ ~SharedBorrowed(v)
    /\ Live(v) /\ a \in OpenLts /\ mem[v].scope <= a
    /\ Bounds(TypeOf(v), a)
    /\ borrow' = [kind |-> "mut", addr |-> v, lt |-> a]
    /\ view' = BoundedAnyMut_from(borrow', TypeOf(v))
    /\ last' = NoCall
    /\ UNCHANGED <<depth, mem, results, held, written>>
    /\ UNCHANGED typeVars

DropView ==
    /\ view # NoView
    /\ view' = NoView
    /\ borrow' = BorrowAfter(view', results)
    /\ last' = LastAfter(view')
    /\ UNCHANGED <<depth, mem, results, held, written>>
    /\ UNCHANGED typeVars

(***************************************************************************)
(* A client that keeps what the downcasts return.                          *)
(***************************************************************************)
Keep(r) == IF r.some THEN Append(results, r) ELSE results

\* downcast_ref takes &self: it is callable on either view at any time.
DowncastRef(U) ==
    /\ view # NoView
    /\ Len(results) < MaxResults
    /\ Bounds(U, view.lt)
    /\ results' = Keep(IF view.kind = "ref" THEN BoundedAnyRef_downcast_ref(view, U)
                                             ELSE BoundedAnyMut_downcast_ref(view, U))
    /\ UNCHANGED <<depth, mem, borrow, view, held, written, last>>
    /\ UNCHANGED typeVars

\* downcast_mut takes &mut self for the call only: its result is &'a mut U,
\* which does not keep the view borrowed.
DowncastMut(U) ==
    /\ view.kind = "mut"
    /\ Len(results) < MaxResults
    /\ Bounds(U, view.lt)
    /\ results' = Keep(BoundedAnyMut_downcast_mut(view, U))
    /\ UNCHANGED <<depth, mem, borrow, view, held, written, last>>
    /\ UNCHANGED typeVars

\* *r = x through an exclusive downcast result.
Write(i, x) ==
    /\ i \in 1..Len(results)
    /\ results[i].mut
    /\ results[i].ty.k # "ref"
    /\ x \in Vals
    /\ mem' = [mem EXCEPT ![results[i].ptr].val = x]
    /\ written' = results[i].ptr
    /\ UNCHANGED <<depth, borrow, view, results, held, last>>
    /\ UNCHANGED typeVars

\* let h = *r, for a result r: &'a &'x i32: the embedded reference is Copy.
CopyOut(i) ==
    /\ i \in 1..Len(results)
    /\ results[i].ty.k = "ref"
    /\ held' = [ptr |-> mem[results[i].ptr].val,
                ty |-> results[i].ty.args[1], lt |-> results[i].ty.lt]
    /\ UNCHANGED <<depth, mem, borrow, view, results, written, last>>
    /\ UNCHANGED typeVars

DropResult ==
    /\ results # <<>>
    /\ results' = SubSeq(results, 1, Len(results) - 1)
    /\ borrow' = BorrowAfter(view, results')
    /\ UNCHANGED <<depth, mem, view, held, written, last>>
    /\ UNCHANGED typeVars

Next ==
    \/ OpenScope
    \/ CloseScope
    \/ \E T \in ValueTypes, v \in Addrs \cup Vals : Let(T, v)
    \/ \E v \in Addrs, a \in Lifetimes : FromRef(v, a)
    \/ \E v \in Addrs, a \in Lifetimes : FromMut(v, a)
    \/ \E U \in QueryTypes : DowncastRef(U)
    \/ \E U \in QueryTypes : DowncastMut(U)
    \/ \E i \in 1..MaxResults, x \in Vals : Write(i, x)
    \/ \E i \in 1..MaxResults : CopyOut(i)
    \/ DropView
    \/ DropResult

TypeIdle == tyT = i32 /\ tyU = i32 /\ idT = Pending /\ idU = Pending

Init == ProgInit /\ TypeIdle

Spec == Init /\ [][Next]_vars

(***************************************************************************)
(* A client that keeps one downcast result at a time.                      *)
(***************************************************************************)
HoldRef(U) == results = <<>> /\ DowncastRef(U)

HoldMut(U) == results = <<>> /\ DowncastMut(U)

HoldNext ==
    \/ OpenScope
    \/ CloseScope
    \/ \E T \in ValueTypes, v \in Addrs \cup Vals : Let(T, v)
    \/ \E v \in Addrs, a \in Lifetimes : FromRef(v, a)
    \/ \E v \in Addrs, a \in Lifetimes : FromMut(v, a)
    \/ \E U \in QueryTypes : HoldRef(U)
    \/ \E U \in QueryTypes : HoldMut(U)
    \/ \E x \in Vals : Write(1, x)
    \/ DropView
    \/ DropResult

HoldSpec == Init /\ [][HoldNext]_vars

(***************************************************************************)
(* A client that only looks at what each call answers.                     *)
(***************************************************************************)
Is(U) ==
    /\ view # NoView
    /\ Bounds(U, view.lt)
    /\ last' = Call("is", U,
                    IF view.kind = "ref" THEN BoundedAnyRef_is(view, U)
                                         ELSE BoundedAnyMut_is(view, U),
                    None)
    /\ UNCHANGED <<depth, mem, borrow, view, results, held, written>>
    /\ UNCHANGED typeVars

TryDowncastRef(U) ==
    /\ view # NoView
    /\ Bounds(U, view.lt)
    /\ LET r == IF view.kind = "ref" THEN BoundedAnyRef_downcast_ref(view, U)
                                     ELSE BoundedAnyMut_downcast_ref(view, U) IN
        last' = Call("downcast_ref", U, r.some, r)
    /\ UNCHANGED <<depth, mem, borrow, view, results, held, written>>
    /\ UNCHANGED typeVars

TryDowncastMut(U) ==
    /\ view.kind = "mut"
    /\ Bounds(U, view.lt)
    /\ LET r == BoundedAnyMut_downcast_mut(view, U) IN
        last' = Call("downcast_mut", U, r.some, r)
    /\ UNCHANGED <<depth, mem, borrow, view, results, held, written>>
    /\ UNCHANGED typeVars

ProbeNext ==
    \/ OpenScope
    \/ CloseScope
    \/ \E T \in ValueTypes, v \in Addrs \cup Vals : Let(T, v)
    \/ \E v \in Addrs, a \in Lifetimes : FromRef(v, a)
    \/ \E v \in Addrs, a \in Lifetimes : FromMut(v, a)
    \/ \E U \in QueryTypes : Is(U)
    \/ \E U \in QueryTypes : TryDowncastRef(U)
    \/ \E U \in QueryTypes : TryDowncastMut(U)
    \/ DropView

ProbeSpec == Init /\ [][ProbeNext]_vars

TypeNext == OfT \/ OfU

TypeSpec == TypeInit /\ [][TypeNext]_vars

(***************************************************************************)
(* Properties.                                                             *)
(***************************************************************************)

\* A type with every lifetime written in it replaced by 'static, its shape kept.
RECURSIVE Erase(_)
Erase(T) ==
    Mk(T.k, 0, T.n, [i \in 1..Len(T.args) |-> Erase(T.args[i])])

\* C1: two identifiers are equal iff the two types have the same
\* representative, which is to say iff they are the same type once every
\* lifetime is erased; equal identifiers hash equally.
C1_EqualIffSameErasure ==
    (idT.tag = "id" /\ idU.tag = "id") =>
        /\ (idT = idU) <=> (Static(tyT) = Static(tyU))
        /\ (idT = idU) <=> (Erase(tyT) = Erase(tyU))
        /\ (idT = idU) => (BoundedTypeId_hash(idT) = BoundedTypeId_hash(idU))

\* C8: the representative of a tuple of arity 1..5 is the tuple of the same
\* arity of its components' representatives, so only a tuple of that arity
\* with component-wise equal representatives has the same identifier.
C8_TupleComponentwise ==
    (tyT.k = "tuple" /\ idT.tag = "id") =>
        /\ idT.tid = TypeId_of(Tuple([i \in 1..Len(tyT.args) |-> Static(tyT.args[i])]))
        /\ (idU = idT) =>
              /\ tyU.k = "tuple" /\ Len(tyU.args) = Len(tyT.args)
              /\ \A i \in 1..Len(tyT.args) : Static(tyU.args[i]) = Static(tyT.args[i])

\* C9: a shared or exclusive reference to a supported type T, the unsized
\* str and [T] included, is supported, and its representative is the same
\* kind of reference, for 'static, to T's representative.
C9_ReferenceToSupported ==
    (tyT.k \in {"ref", "refmut"} /\ AsStatic(tyT.args[1]) /\ idT # Pending) =>
        /\ idT.tag = "id"
        /\ idT.tid = TypeId_of(Mk(tyT.k, 0, 0, <<Static(tyT.args[1])>>))

\* The type the view in hand was made from.
Viewed == TypeOf(borrow.addr)
IsAnswer(U) ==
    IF view.kind = "ref" THEN BoundedAnyRef_is(view, U) ELSE BoundedAnyMut_is(view, U)

\* C2: on either view of a value of type T, is::<U>() answers true exactly
\* when U and T have the same representative, whatever lifetimes U names.
C2_IsIffSameRepresentative ==
    last.op = "is" =>
        /\ view # NoView
        /\ last.ok <=> (Static(last.ty) = Static(Viewed))
        /\ (last.ty = Viewed) => last.ok

C2_Witness ==
    /\ last.op = "is" /\ last.ok
    /\ view.kind = "mut"
    /\ last.ty.k = "ref" /\ last.ty.lt # Viewed.lt

\* C3: downcast_ref and downcast_mut return Some exactly when is::<U>() is
\* true, and None when the representatives of U and the viewed type differ.
C3_DowncastIffIs ==
    last.op \in {"downcast_ref", "downcast_mut"} =>
        /\ view # NoView
        /\ last.res.some <=> IsAnswer(last.ty)
        /\ (Static(last.ty) # Static(Viewed)) => last.res = None
        /\ last.res.some => last.res.ty = last.ty

C3_Witness ==
    /\ last.op = "downcast_mut" /\ last.res = None
    /\ Static(last.ty) # Static(Viewed)

\* C4: BoundedAnyRef::from(&v).downcast_ref::<T>() is Some(r), r being the
\* address of v and reading v's value; neither call changes memory.
\* (A step that makes a shared view is a from; a step that changes `last`
\* into the answer of a downcast_ref is that call.)
C4_RoundTrip ==
    [][/\ (view' # view /\ view'.kind = "ref") =>
            (view'.ptr = borrow'.addr /\ mem' = mem)
       /\ (last' # last /\ last'.op = "downcast_ref"
             /\ view.kind = "ref" /\ last'.ty = Viewed) =>
                /\ last'.res.some
                /\ last'.res.ptr = borrow.addr
                /\ mem'[last'.res.ptr].val = mem[borrow.addr].val
                /\ mem' = mem]_vars

C4_Witness ==
    /\ last.op = "downcast_ref" /\ last.res.some
    /\ borrow.kind = "ref" /\ last.ty = Viewed
    /\ last.res.ptr = borrow.addr
    /\ mem[last.res.ptr].val = MaxVal

\* C5: whatever calls the signatures allow on one exclusive view, a live
\* result of downcast_mut shares its memory with no other live result.
C5_ExclusiveResultIsAlone ==
    \A i, j \in 1..Len(results) :
        (i # j /\ results[i].mut) => results[i].ptr # results[j].ptr

\* C6: a downcast result has the lifetime of the borrow the view was made
\* from, so while it can be used that borrow has not ended and the value
\* it points to is alive.
C6_ResultHasBorrowLifetime ==
    \A i \in 1..Len(results) :
        /\ results[i].lt = borrow.lt
        /\ results[i].lt \in OpenLts
        /\ results[i].ptr = borrow.addr
        /\ Live(results[i].ptr)

C6_Witness ==
    /\ results # <<>>
    /\ ~results[1].mut
    /\ results[1].lt > mem[results[1].ptr].scope

\* C7: a write through downcast_mut::<T>() changes the viewed value and
\* nothing else, and dropping the result and the view leaves it as written.
C7_WriteReachesValue ==
    [][/\ \A x \in Vals :
            (Write(1, x) /\ results[1].ty = Viewed) =>
                mem' = [mem EXCEPT ![borrow.addr].val = x]
       /\ (DropView \/ DropResult) => mem' = mem]_vars

C7_Witness ==
    /\ written # 0 /\ Live(written)
    /\ view = NoView /\ results = <<>>
    /\ mem[written].ty = i32

\* C10: a downcast result's type names no lifetime longer than those of the
\* viewed type, so a reference copied out of a result is to a live value
\* for as long as it can be used.
C10_NoLifetimeExtension ==
    /\ \A i \in 1..Len(results) :
          \A l \in LifetimesOf(results[i].ty) :
              \E k \in LifetimesOf(TypeOf(results[i].ptr)) : k <= l
    /\ (held # NoHeld /\ held.lt \in OpenLts) => Live(held.ptr)
====
